---- MODULE Spec2Model ----
(***************************************************************************)
(* A model of the JSON translation scripts: translate_json.py (chunker,    *)
(* translator with retries, per-file record processing),                   *)
(* retry_failed_translations.py, fix_non_translatable.py and               *)
(* verify_translations.py, with the settings of config.py.                 *)
(*                                                                         *)
(* A Python str is a sequence of characters; a character is a one-element  *)
(* TLA+ string.  The two Arabic characters of config.SENTENCE_DELIMITERS   *)
(* are written "AQ" (Arabic question mark) and "AC" (Arabic comma), "AR"   *)
(* is any other Arabic letter and "\n" is the newline.                     *)
(***************************************************************************)
EXTENDS Integers, Sequences, FiniteSets, TLC

(***************************************************************************)
(* config.py                                                               *)
(***************************************************************************)
MAX_CHUNK_SIZE == 500
MAX_RETRIES == 5
MAX_WORKERS == 3
\* MIN_CHUNK_RATIO = 0.5, kept as the exact fraction 1/2
MIN_CHUNK_RATIO_NUM == 1
MIN_CHUNK_RATIO_DEN == 2
SENTENCE_DELIMITERS ==
    << <<".", " ">>, <<".", "\n">>, <<"AQ", " ">>, <<"!", " ">>,
       <<"AC", " ">>, <<"\n", "\n">>, <<"\n">> >>

(***************************************************************************)
(* Bounds of the chunker's exploration.                                    *)
(***************************************************************************)
MaxTextLen == 6
MaxSizeArg == 5
ChunkAlphabet == {"x", ".", " ", "\n"}
\* the windows given to _find_break_point on its own
MaxWindow == 7
WindowAlphabet == {"x", ".", " ", "\n", "AC"}

(***************************************************************************)
(* Python str helpers                                                      *)
(***************************************************************************)
\* s[:n] for 0 <= n
Take(s, n) == SubSeq(s, 1, IF n < Len(s) THEN n ELSE Len(s))
\* s[n:] for 0 <= n
Drop(s, n) == SubSeq(s, (IF n < Len(s) THEN n ELSE Len(s)) + 1, Len(s))

\* the 0-based positions at which d occurs in s
Occurrences(s, d) ==
    {p \in 0..(Len(s) - Len(d)) : SubSeq(s, p + 1, p + Len(d)) = d}

\* str.rfind: the highest position of d in s, -1 when there is none
RFind(s, d) ==
    LET occ == Occurrences(s, d)
    IN  IF occ = {} THEN -1
        ELSE CHOOSE p \in occ : \A q \in occ : q <= p

Whitespace == {" ", "\n"}
\* str.strip()
RECURSIVE LStrip(_)
LStrip(s) ==
    IF s # <<>> /\ Head(s) \in Whitespace THEN LStrip(Tail(s)) ELSE s
RECURSIVE RStrip(_)
RStrip(s) ==
    IF s # <<>> /\ s[Len(s)] \in Whitespace
    THEN RStrip(SubSeq(s, 1, Len(s) - 1)) ELSE s
Strip(s) == RStrip(LStrip(s))
\* str.lower(), on the upper-case letters the model's values use
LowerChar(c) ==
    CASE c = "T" -> "t" [] c = "H" -> "h" [] OTHER -> c
Lower(s) == [i \in DOMAIN s |-> LowerChar(s[i])]
\* JoinSpace with nothing between the parts
RECURSIVE JoinNoSpace(_)
JoinNoSpace(parts) ==
    IF parts = <<>> THEN <<>> ELSE Head(parts) \o JoinNoSpace(Tail(parts))

\* ' '.join(parts)
RECURSIVE JoinSpace(_)
JoinSpace(parts) ==
    IF parts = <<>> THEN <<>>
    ELSE IF Len(parts) = 1 THEN parts[1]
    ELSE parts[1] \o <<" ">> \o JoinSpace(Tail(parts))

\* the concatenation of a sequence of strings
RECURSIVE Concat(_)
Concat(ss) == IF ss = <<>> THEN <<>> ELSE Head(ss) \o Concat(Tail(ss))

(***************************************************************************)
(* TextChunker                                                             *)
(***************************************************************************)
\* MinPosition for a MIN_CHUNK_RATIO of 0
MinPositionZero(max_size) == 0

\* int(max_size * config.MIN_CHUNK_RATIO), max_size >= 0
MinPosition(max_size) ==
    (max_size * MIN_CHUNK_RATIO_NUM) \div MIN_CHUNK_RATIO_DEN

\* FindBreakFrom taking, of the delimiters found far enough, the one that
\* ends last
FindBreakLatest(chunk, max_size, i) ==
    LET found == {j \in i..Len(SENTENCE_DELIMITERS) :
                    RFind(chunk, SENTENCE_DELIMITERS[j]) > MinPosition(max_size)}
        ends == {RFind(chunk, SENTENCE_DELIMITERS[j]) + Len(SENTENCE_DELIMITERS[j]) :
                    j \in found}
    IN  IF found = {} THEN max_size
        ELSE CHOOSE e \in ends : \A f \in ends : f <= e

\* the for loop of _find_break_point from delimiter number i on
RECURSIVE FindBreakFrom(_, _, _)
FindBreakFrom(chunk, max_size, i) ==
    IF i > Len(SENTENCE_DELIMITERS) THEN max_size
    ELSE LET delimiter == SENTENCE_DELIMITERS[i]
             pos == RFind(chunk, delimiter)
         IN  IF pos > MinPosition(max_size)
             THEN pos + Len(delimiter)
             ELSE FindBreakFrom(chunk, max_size, i + 1)

_find_break_point(chunk, max_size) == FindBreakFrom(chunk, max_size, 1)

\* BreakPoint with the delimiters searched in all that remains
BreakPointWholeText(remaining, max_size) ==
    _find_break_point(remaining, max_size)

\* the break point of one iteration of chunk_text's loop
BreakPoint(remaining, max_size) ==
    _find_break_point(Take(remaining, max_size), max_size)

\* line 80: the chunk cut off, remaining[:break_point]
CutChunk(remaining, break_point) == Take(remaining, break_point)

\* CutRest with the white space after the cut dropped
CutRestStripped(remaining, break_point) == LStrip(Drop(remaining, break_point))

\* line 81: what is left, remaining[break_point:]
CutRest(remaining, break_point) == Drop(remaining, break_point)

\* the while loop of chunk_text, from the state (remaining, chunks)
RECURSIVE ChunkLoopFrom(_, _, _)
ChunkLoopFrom(remaining, chunks, max_size) ==
    IF remaining = <<>> THEN chunks
    ELSE IF Len(remaining) <= max_size THEN Append(chunks, remaining)
    ELSE LET break_point == BreakPoint(remaining, max_size)
         IN  ChunkLoopFrom(CutRest(remaining, break_point),
                           Append(chunks, CutChunk(remaining, break_point)),
                           max_size)

chunk_text(text, max_size) ==
    IF Len(text) <= max_size THEN <<text>>
    ELSE ChunkLoopFrom(text, <<>>, max_size)


(***************************************************************************)
(* JSON documents.  A document on storage is a Content: text that does not *)
(* parse ("invalid"), the value null, a mapping ("dict") or a list.  The   *)
(* elements met when iterating it are Items: a record (isdict) with its    *)
(* fields in insertion order, or anything else (a number in a list, a key  *)
(* of a top-level mapping).  A key is its base name and the number of      *)
(* TRANSLATION_SUFFIX copies appended to it; a value is a str or not.      *)
(***************************************************************************)
Key(name, en) == [name |-> name, en |-> en]
Str(s) == [str |-> TRUE, s |-> s]
NotStr == [str |-> FALSE, s |-> <<>>]
Field(key, val) == [key |-> key, val |-> val]
Record(fields) == [isdict |-> TRUE, fields |-> fields]
NotRecord == [isdict |-> FALSE, fields |-> <<>>]
Invalid == [kind |-> "invalid", items |-> <<>>]
Null == [kind |-> "null", items |-> <<>>]
Dict(n) == [kind |-> "dict", items |-> [i \in 1..n |-> NotRecord]]
List(items) == [kind |-> "list", items |-> items]

\* EndsWithSuffix finding the suffix on no key
EndsWithSuffixNever(key) == FALSE

\* key.endswith(config.TRANSLATION_SUFFIX)
EndsWithSuffix(key) == key.en > 0
\* f"{key}{config.TRANSLATION_SUFFIX}"
EnKey(key) == [key EXCEPT !.en = @ + 1]
\* key in item
InItem(item, key) == \E i \in DOMAIN item.fields : item.fields[i].key = key
\* item[key], for key in item
GetItem(item, key) ==
    item.fields[CHOOSE i \in DOMAIN item.fields : item.fields[i].key = key].val
\* SetItem storing under the key without its last suffix
SetItemSource(item, key, val) ==
    [item EXCEPT !.fields =
        [i \in DOMAIN item.fields |->
            IF item.fields[i].key = [key EXCEPT !.en = @ - 1]
            THEN [item.fields[i] EXCEPT !.val = val]
            ELSE item.fields[i]]]

\* item[key] = val: in place when the key exists, else appended
SetItem(item, key, val) ==
    IF InItem(item, key)
    THEN [item EXCEPT !.fields =
            [i \in DOMAIN item.fields |->
                IF item.fields[i].key = key
                THEN [item.fields[i] EXCEPT !.val = val]
                ELSE item.fields[i]]]
    ELSE [item EXCEPT !.fields = Append(@, Field(key, val))]

\* NotText without the test for blank strings
NotStrOnly(val) == ~val.str

\* not isinstance(value, str) or not value.strip()
NotText(val) == ~val.str \/ Strip(val.s) = <<>>

(***************************************************************************)
(* The values and documents explored.                                      *)
(***************************************************************************)
\* a short Arabic text
ArText == <<"AR", "AR">>
\* what the provider returns when it translates
EnText == <<"H", "i">>
\* a non-translatable literal, in upper case and with trailing whitespace
TrueLit == <<"T", "r", "u", "e", " ">>
BlankText == <<" ", " ">>
\* a text of 552 characters with one sentence end at position 300
LongSentence == 300
LongRest == 250
LongText ==
    [i \in 1..LongSentence |-> "x"] \o <<".", " ">> \o [i \in 1..LongRest |-> "x"]

Title == Key("title", 0)
Flag == Key("flag", 0)
Note == Key("note", 0)
Count == Key("count", 0)

DataContents ==
    { Invalid, Null, Dict(0), Dict(1), List(<<>>),
      List(<<Record(<<Field(Title, Str(ArText))>>)>>),
      List(<<Record(<<Field(Title, Str(ArText)),
                      Field(EnKey(Title), Str(EnText))>>)>>),
      List(<<Record(<<Field(Title, Str(ArText)),
                      Field(EnKey(Title), Str(ArText))>>)>>),
      List(<<Record(<<Field(Flag, Str(TrueLit))>>)>>),
      List(<<Record(<<Field(Flag, Str(TrueLit)),
                      Field(EnKey(Flag), Str(TrueLit))>>)>>),
      List(<<Record(<<Field(Note, Str(LongText))>>)>>),
      List(<<Record(<<Field(Note, Str(LongText)),
                      Field(EnKey(Note), Str(LongText))>>)>>),
      List(<<Record(<<Field(Title, Str(ArText))>>), NotRecord>>),
      List(<<Record(<<Field(Count, NotStr), Field(Note, Str(BlankText)),
                      Field(Title, Str(ArText)), Field(Flag, Str(TrueLit))>>)>>),
      List(<<Record(<<Field(Title, Str(ArText)),
                      Field(EnKey(Title), Str(EnText))>>),
             Record(<<Field(Flag, Str(TrueLit)),
                      Field(EnKey(Flag), Str(TrueLit))>>)>>) }

\* the directory's files in another order than that of their names
UnsortedFileNames == <<"z.json", "filename_mapping.json", "a.json">>

\* sorted(json_dir.glob('*.json')): the directory's files in name order
FileNames == <<"a.json", "filename_mapping.json", "z.json">>
FileSet == {FileNames[i] : i \in DOMAIN FileNames}

\* the mapping file holds a mapping of old to new names
InitialDisks ==
    { [f \in FileSet |->
          CASE f = "a.json" -> a
            [] f = "filename_mapping.json" -> Dict(1)
            [] OTHER -> z]
      : a \in DataContents, z \in DataContents }

VARIABLES
    chunker,    \* TextChunker's methods run on their own
    disk,       \* storage: file name -> Content
    mode,       \* the script running: "none", "translate", "retry", "fix", "verify"
    max_workers, \* process_files' max_workers argument
    pc,         \* where the running script is: "idle" with no script running,
                \* "raised" when the last one ended with an uncaught exception,
                \* "file", "item", "field", "translating", "save", and "write"
                \* while the current file is open for writing
    fidx,       \* position in json_files
    data,       \* the loaded document of the current file
    iidx,       \* position in data
    snapshot,   \* list(item.items()) of the current item
    kidx,       \* position in snapshot
    stats,      \* TranslationStats of the current file
    results,    \* process_files' results: List[FileResult]
    rfile,      \* _retry_file's fields_retried, fields_fixed, modified
    rstats,     \* retry_all_files' RetryStats
    fixer,      \* NonTranslatableFixer's total_fixed, files_modified
    vagg,       \* verify_all_files' totals and file_stats
    tr,         \* the frame of Translator.translate
    ghost       \* history, read only by properties: provider calls, writes,
                \* what the file open for writing held (opened), whether the
                \* script has called the provider (begun), the tenths of a
                \* second slept since its last call (slept), and the number
                \* of derived fields it has written to storage (created)

\* what belongs to the other scripts than translate_json.py
others == <<rfile, rstats, fixer, vagg>>
vars == <<chunker, disk, mode, max_workers, pc, fidx, data, iidx, snapshot, kidx, stats,
          results, rfile, rstats, fixer, vagg, tr, ghost>>
pipeVars == <<disk, mode, max_workers, pc, fidx, data, iidx, snapshot, kidx, stats,
              results, rfile, rstats, fixer, vagg, tr, ghost>>


(***************************************************************************)
(* Initial values of the frames                                            *)
(***************************************************************************)
NoStats ==
    [total_items |-> 0, translated_fields |-> 0, skipped_fields |-> 0,
     failed_fields |-> 0]
NoTr ==
    [pc |-> "idle", text |-> <<>>, chunks |-> <<>>, cidx |-> 0, attempt |-> 0,
     translated_chunks |-> <<>>, result |-> <<>>]
\* the provider calls made for one unit of text: their number, how many
\* raised, and what the others returned
NoUnit == [text |-> <<>>, calls |-> 0, fails |-> 0, returned |-> <<>>]
\* units: the provider calls of the translate() in progress, per chunk;
\* called, raised, changed: since the current file was loaded, whether the
\* provider was called, raised, returned something other than its input;
\* written: the files written by the running script, each with whether the
\* document written differs from the one it replaced
NoGhost ==
    [units |-> <<>>, called |-> FALSE, raised |-> FALSE, changed |-> FALSE,
     written |-> {}, opened |-> List(<<>>), begun |-> FALSE, slept |-> 0,
     created |-> 0]
NoData == List(<<>>)
NoRFile == [fields_retried |-> 0, fields_fixed |-> 0, modified |-> FALSE]
NoRStats ==
    [files_processed |-> 0, fields_retried |-> 0, fields_fixed |-> 0,
     fields_still_failed |-> 0]
NoFixer == [total_fixed |-> 0, files_modified |-> 0]
NoVAgg ==
    [total_items |-> 0, total_fields |-> 0, translated_fields |-> 0,
     failed_fields |-> 0, file_stats |-> <<>>]
NoChunker ==
    [pc |-> "off", text |-> <<>>, max_size |-> 1, remaining |-> <<>>,
     chunks |-> <<>>]

\* a script's state when its process starts
Fresh ==
    /\ fidx = 0 /\ data = NoData /\ iidx = 0 /\ snapshot = <<>> /\ kidx = 0
    /\ stats = NoStats /\ results = <<>> /\ rfile = NoRFile
    /\ rstats = NoRStats /\ fixer = NoFixer /\ vagg = NoVAgg
    /\ tr = NoTr /\ ghost = NoGhost

PipeIdle ==
    /\ disk = [f \in FileSet |-> List(<<>>)]
    /\ mode = "none" /\ max_workers = MAX_WORKERS /\ pc = "idle" /\ Fresh

(***************************************************************************)
(* Translator                                                              *)
(***************************************************************************)
\* what self.translator.translate(text) may return when it does not raise
ProviderResults(text) == {text, EnText}

\* the text of the unit in progress: the whole text, or chunk cidx
UnitText == tr.chunks[tr.cidx]

\* RetryAgain giving up one attempt early
RetryAgainOffByOne(attempt) == attempt < MAX_RETRIES - 2

\* lines 140, 172: another attempt follows a failed one
RetryAgain(attempt) == attempt < MAX_RETRIES - 1

\* what a step inside translate() leaves alone
CallerFrame ==
    UNCHANGED <<chunker, disk, mode, max_workers, pc, fidx, data, iidx, snapshot, kidx,
                stats, results, others>>

\* lines 119-127: translate() up to its first provider call
TranslateEnter ==
    /\ pc = "translating" /\ tr.pc = "call"
    /\ CallerFrame
    /\ IF Strip(tr.text) = <<>>
       THEN tr' = [tr EXCEPT !.pc = "ret", !.result = tr.text]
       ELSE tr' = [tr EXCEPT !.pc = "attempt",
                             !.chunks = chunk_text(tr.text, MAX_CHUNK_SIZE),
                             !.cidx = 1, !.attempt = 0,
                             !.translated_chunks = <<>>]
    /\ ghost' = [ghost EXCEPT !.units =
                    IF Strip(tr.text) = <<>> THEN <<>>
                    ELSE [i \in DOMAIN tr'.chunks |->
                            [NoUnit EXCEPT !.text = tr'.chunks[i]]]]

\* UnitEnd with one attempt counter for all the chunks
UnitEndSharedBudget(used) ==
    IF Len(tr.chunks) = 1
    THEN [tr EXCEPT !.pc = "ret", !.result = used]
    ELSE LET done == Append(tr.translated_chunks, used)
         IN  IF tr.cidx < Len(tr.chunks) /\ tr.attempt + 1 < MAX_RETRIES
             THEN [tr EXCEPT !.translated_chunks = done, !.cidx = @ + 1,
                             !.attempt = @ + 1]
             ELSE [tr EXCEPT !.translated_chunks = done, !.pc = "ret",
                             !.result = JoinSpace(done)]

\* the frame after the unit in progress ended with the value `used`:
\* _translate_single returns it; _translate_chunks appends it and goes on
\* to the next chunk, or returns the joined chunks after the last one
UnitEnd(used) ==
    IF Len(tr.chunks) = 1
    THEN [tr EXCEPT !.pc = "ret", !.result = used]
    ELSE LET done == Append(tr.translated_chunks, used)
         IN  IF tr.cidx < Len(tr.chunks)
             THEN [tr EXCEPT !.translated_chunks = done, !.cidx = @ + 1,
                             !.attempt = 0]
             ELSE [tr EXCEPT !.translated_chunks = done, !.pc = "ret",
                             !.result = JoinSpace(done)]

\* config.py lines 22-24: 0.5, 1.0 and 3.0 seconds, in tenths of a second
BASE_DELAY == 5
CHUNK_DELAY == 10
RETRY_DELAY == 30

\* lines 133-135, 159-166: the provider returns, and the script sleeps
\* BASE_DELAY, or CHUNK_DELAY for a chunk of several
ProviderReturn ==
    /\ pc = "translating" /\ tr.pc = "attempt"
    /\ CallerFrame
    /\ tr.attempt < MAX_RETRIES
    /\ \E result \in ProviderResults(UnitText) :
        /\ tr' = UnitEnd(result)
        /\ ghost' = [ghost EXCEPT
                        !.units[tr.cidx].calls = @ + 1,
                        !.units[tr.cidx].returned = Append(@, result),
                        !.called = TRUE,
                        !.changed = @ \/ result # UnitText,
                        !.begun = TRUE,
                        !.slept = IF Len(tr.chunks) = 1 THEN BASE_DELAY
                                  ELSE CHUNK_DELAY]

\* lines 136-145, 168-178: the provider raises, and the script sleeps
\* RETRY_DELAY if it is to try again
ProviderRaise ==
    /\ pc = "translating" /\ tr.pc = "attempt"
    /\ CallerFrame
    /\ tr.attempt < MAX_RETRIES
    /\ tr' = IF RetryAgain(tr.attempt)
             THEN [tr EXCEPT !.attempt = @ + 1]
             ELSE UnitEnd(UnitText)
    /\ ghost' = [ghost EXCEPT !.units[tr.cidx].calls = @ + 1,
                              !.units[tr.cidx].fails = @ + 1,
                              !.called = TRUE, !.raised = TRUE,
                              !.begun = TRUE,
                              !.slept = IF RetryAgain(tr.attempt) THEN RETRY_DELAY
                                        ELSE 0]

(***************************************************************************)
(* translate_json.py: process_files, JSONTranslator                        *)
(***************************************************************************)
CurFile == FileNames[fidx]
FileResult(filename, success, st) ==
    [filename |-> filename, success |-> success, stats |-> st]

\* the worker counts process_files is called with
WorkerCounts == {1, MAX_WORKERS}

\* a script starts as a new process with mode m, at the first of json_files;
\* process_files takes max_workers and prints it (line 306)
Start(m) ==
    /\ pc \in {"idle", "raised"}
    /\ mode' = m /\ pc' = "file" /\ fidx' = 1
    /\ max_workers' \in (IF m = "translate" THEN WorkerCounts ELSE {MAX_WORKERS})
    /\ data' = NoData /\ iidx' = 0 /\ snapshot' = <<>> /\ kidx' = 0
    /\ stats' = NoStats /\ results' = <<>> /\ rfile' = NoRFile
    /\ rstats' = NoRStats /\ fixer' = NoFixer /\ vagg' = NoVAgg
    /\ tr' = NoTr /\ ghost' = NoGhost
    /\ UNCHANGED <<chunker, disk>>

\* lines 293-328
StartTranslate == Start("translate")

\* lines 206-221 and 244-254: json.load raises on text that is not JSON and
\* len(data) raises on null
TrLoad ==
    /\ mode = "translate" /\ pc = "file" /\ fidx <= Len(FileNames)
    /\ ghost' = [ghost EXCEPT !.called = FALSE, !.raised = FALSE,
                              !.changed = FALSE]
    /\ IF disk[CurFile].kind \in {"invalid", "null"}
       THEN /\ results' = Append(results, FileResult(CurFile, FALSE, NoStats))
            /\ fidx' = fidx + 1
            /\ UNCHANGED <<pc, data, iidx, stats>>
       ELSE /\ data' = disk[CurFile]
            /\ stats' = [NoStats EXCEPT !.total_items = Len(disk[CurFile].items)]
            /\ iidx' = 1 /\ pc' = "item"
            /\ UNCHANGED <<results, fidx>>
    /\ UNCHANGED <<others, chunker, disk, mode, max_workers, snapshot, kidx, tr>>

\* lines 224-228, 258: the next item, whose items() raises unless it is a
\* mapping; past the last item, on to the save
TrItem ==
    /\ mode = "translate" /\ pc = "item"
    /\ IF iidx > Len(data.items)
       THEN /\ pc' = "save"
            /\ UNCHANGED <<results, fidx, snapshot, kidx>>
       ELSE IF ~data.items[iidx].isdict
       THEN /\ results' = Append(results, FileResult(CurFile, FALSE, stats))
            /\ fidx' = fidx + 1 /\ pc' = "file"
            /\ UNCHANGED <<snapshot, kidx>>
       ELSE /\ snapshot' = data.items[iidx].fields
            /\ kidx' = 1 /\ pc' = "field"
            /\ UNCHANGED <<results, fidx>>
    /\ UNCHANGED <<others, chunker, disk, mode, max_workers, data, iidx, stats, tr, ghost>>

\* AlreadyTranslated looking for the suffix appended twice
AlreadyTranslatedWrongKey(item, key) == InItem(item, EnKey(EnKey(key)))

\* AlreadyTranslated taking any translation in the item for the key's
AlreadyTranslatedAny(item, key) ==
    \E i \in DOMAIN item.fields : item.fields[i].key.en > 0

\* line 269: en_key in item
AlreadyTranslated(item, key) == InItem(item, EnKey(key))

\* lines 258-280: one iteration of _process_item's loop up to the call of
\* translate; past the last field, on to the next item
TrField ==
    /\ mode = "translate" /\ pc = "field"
    /\ IF kidx > Len(snapshot)
       THEN /\ iidx' = iidx + 1 /\ pc' = "item"
            /\ UNCHANGED <<kidx, stats, tr>>
       ELSE LET key == snapshot[kidx].key
                value == snapshot[kidx].val
            IN  IF EndsWithSuffix(key) \/ NotText(value)
                THEN /\ kidx' = kidx + 1
                     /\ UNCHANGED <<iidx, pc, stats, tr>>
                ELSE IF AlreadyTranslated(data.items[iidx], key)
                THEN /\ stats' = [stats EXCEPT !.skipped_fields = @ + 1]
                     /\ kidx' = kidx + 1
                     /\ UNCHANGED <<iidx, pc, tr>>
                ELSE /\ tr' = [NoTr EXCEPT !.pc = "call", !.text = value.s]
                     /\ pc' = "translating"
                     /\ UNCHANGED <<iidx, kidx, stats>>
    /\ UNCHANGED <<others, chunker, disk, mode, max_workers, fidx, data, snapshot, results, ghost>>

\* lines 280-290: translate returned
TrStore ==
    /\ mode = "translate" /\ pc = "translating" /\ tr.pc = "ret"
    /\ LET key == snapshot[kidx].key
           value == snapshot[kidx].val
           translated == tr.result
       IN  /\ data' = [data EXCEPT !.items[iidx] =
                          SetItem(@, EnKey(key), Str(translated))]
           /\ stats' = IF translated # value.s
                       THEN [stats EXCEPT !.translated_fields = @ + 1]
                       ELSE [stats EXCEPT !.failed_fields = @ + 1]
    /\ kidx' = kidx + 1 /\ pc' = "field" /\ tr' = NoTr
    /\ ghost' = [ghost EXCEPT !.units = <<>>]
    /\ UNCHANGED <<others, chunker, disk, mode, max_workers, fidx, iidx, snapshot, results>>

\* the number of fields of all the items of a document
RECURSIVE FieldCount(_)
FieldCount(items) ==
    IF items = <<>> THEN 0 ELSE Len(Head(items).fields) + FieldCount(Tail(items))

\* what a file holds from open(file_path, 'w') until json.dump has written
\* the whole document: nothing, or the beginning of the document's text
Truncated == Invalid

\* line 231: open(file_path, 'w') empties the file
TrOpen ==
    /\ mode = "translate" /\ pc = "save"
    /\ disk' = [disk EXCEPT ![CurFile] = Truncated]
    /\ ghost' = [ghost EXCEPT !.opened = disk[CurFile]]
    /\ pc' = "write"
    /\ UNCHANGED <<others, chunker, mode, max_workers, fidx, data, iidx, snapshot, kidx,
                   stats, results, tr>>

\* lines 232-242: json.dump writes the document, the file is closed and the
\* file succeeded
TrSave ==
    /\ mode = "translate" /\ pc = "write"
    /\ disk' = [disk EXCEPT ![CurFile] = data]
    /\ results' = Append(results, FileResult(CurFile, TRUE, stats))
    /\ ghost' = [ghost EXCEPT !.written =
                    @ \cup {[file |-> CurFile, changed |-> data # ghost.opened]},
                              !.opened = List(<<>>),
                              !.created = @ + FieldCount(data.items)
                                            - FieldCount(ghost.opened.items)]
    /\ fidx' = fidx + 1 /\ pc' = "file"
    /\ UNCHANGED <<others, chunker, mode, max_workers, data, iidx, snapshot, kidx, stats, tr>>

\* lines 354-357: sum(count(r) for r in results)
RECURSIVE SumResults(_, _)
SumResults(count(_), rs) ==
    IF rs = <<>> THEN 0 ELSE count(Head(rs)) + SumResults(count, Tail(rs))

\* line 355
total_translated ==
    LET count(r) == r.stats.translated_fields IN SumResults(count, results)
\* line 356
total_skipped ==
    LET count(r) == r.stats.skipped_fields IN SumResults(count, results)
\* line 357
total_failed ==
    LET count(r) == r.stats.failed_fields IN SumResults(count, results)

\* lines 339-370: print_summary, and the script ends
TrSummary ==
    /\ mode = "translate" /\ pc = "file" /\ fidx > Len(FileNames)
    /\ pc' = "idle"
    /\ UNCHANGED <<chunker, disk, mode, max_workers, fidx, data, iidx, snapshot, kidx,
                   stats, results, tr, ghost, others>>

(***************************************************************************)
(* retry_failed_translations.py: TranslationRetrier                        *)
(***************************************************************************)
\* lines 190-197, 70-79
StartRetry == Start("retry")

\* lines 81-83, 100-101, 115-122: json.load raises on text that is not
\* JSON and enumerate(data) raises on null; retry_all_files prints the error
RetryLoad ==
    /\ mode = "retry" /\ pc = "file" /\ fidx <= Len(FileNames)
    /\ ghost' = [ghost EXCEPT !.called = FALSE, !.raised = FALSE,
                              !.changed = FALSE]
    /\ IF disk[CurFile].kind \in {"invalid", "null"}
       THEN /\ fidx' = fidx + 1
            /\ UNCHANGED <<pc, data, iidx, rfile>>
       ELSE /\ data' = disk[CurFile]
            /\ rfile' = NoRFile
            /\ iidx' = 1 /\ pc' = "item"
            /\ UNCHANGED fidx
    /\ UNCHANGED <<chunker, disk, mode, max_workers, snapshot, kidx, stats, results,
                   rstats, fixer, vagg, tr>>

\* lines 122-123: the next item, whose items() raises unless it is a
\* mapping; past the last item, on to the save
RetryItem ==
    /\ mode = "retry" /\ pc = "item"
    /\ IF iidx > Len(data.items)
       THEN /\ pc' = "save"
            /\ UNCHANGED <<fidx, snapshot, kidx>>
       ELSE IF ~data.items[iidx].isdict
       THEN /\ fidx' = fidx + 1 /\ pc' = "file"
            /\ UNCHANGED <<snapshot, kidx>>
       ELSE /\ snapshot' = data.items[iidx].fields
            /\ kidx' = 1 /\ pc' = "field"
            /\ UNCHANGED fidx
    /\ UNCHANGED <<chunker, disk, mode, max_workers, data, iidx, stats, results, others,
                   tr, ghost>>

\* LooksFailed without the comparison with the original
LooksTranslated(item, key, value) == InItem(item, EnKey(key))

\* line 134: the translation exists and equals the original
LooksFailed(item, key, value) ==
    InItem(item, EnKey(key)) /\ GetItem(item, EnKey(key)) = value

\* lines 123-141: one iteration of the field loop up to the call of translate
RetryField ==
    /\ mode = "retry" /\ pc = "field"
    /\ IF kidx > Len(snapshot)
       THEN /\ iidx' = iidx + 1 /\ pc' = "item"
            /\ UNCHANGED <<kidx, rfile, tr>>
       ELSE LET key == snapshot[kidx].key
                value == snapshot[kidx].val
            IN  IF EndsWithSuffix(key) \/ NotText(value)
                THEN /\ kidx' = kidx + 1
                     /\ UNCHANGED <<iidx, pc, rfile, tr>>
                ELSE IF LooksFailed(data.items[iidx], key, value)
                THEN /\ rfile' = [rfile EXCEPT !.fields_retried = @ + 1]
                     /\ tr' = [NoTr EXCEPT !.pc = "call", !.text = value.s]
                     /\ pc' = "translating"
                     /\ UNCHANGED <<iidx, kidx>>
                ELSE /\ kidx' = kidx + 1
                     /\ UNCHANGED <<iidx, pc, rfile, tr>>
    /\ UNCHANGED <<chunker, disk, mode, max_workers, fidx, data, snapshot, stats, results,
                   rstats, fixer, vagg, ghost>>

\* lines 141-150: translate returned
RetryStore ==
    /\ mode = "retry" /\ pc = "translating" /\ tr.pc = "ret"
    /\ LET key == snapshot[kidx].key
           value == snapshot[kidx].val
           translated == tr.result
       IN  IF translated # value.s
           THEN /\ data' = [data EXCEPT !.items[iidx] =
                               SetItem(@, EnKey(key), Str(translated))]
                /\ rfile' = [rfile EXCEPT !.modified = TRUE,
                                          !.fields_fixed = @ + 1]
           ELSE UNCHANGED <<data, rfile>>
    /\ kidx' = kidx + 1 /\ pc' = "field" /\ tr' = NoTr
    /\ ghost' = [ghost EXCEPT !.units = <<>>]
    /\ UNCHANGED <<chunker, disk, mode, max_workers, fidx, iidx, snapshot, stats, results,
                   rstats, fixer, vagg>>

\* lines 153-154: open(file_path, 'w') empties the file of a modified
\* document
RetryOpen ==
    /\ mode = "retry" /\ pc = "save"
    /\ rfile.modified
    /\ disk' = [disk EXCEPT ![CurFile] = Truncated]
    /\ ghost' = [ghost EXCEPT !.opened = disk[CurFile]]
    /\ pc' = "write"
    /\ UNCHANGED <<others, chunker, mode, max_workers, fidx, data, iidx, snapshot, kidx,
                   stats, results, tr>>

\* lines 152-162 and 85-98: json.dump writes the document if it was
\* modified, and the file's counts are added to the RetryStats
RetrySave ==
    /\ mode = "retry"
    /\ \/ pc = "write"
       \/ pc = "save" /\ ~rfile.modified
    /\ IF pc = "write"
       THEN /\ disk' = [disk EXCEPT ![CurFile] = data]
            /\ ghost' = [ghost EXCEPT !.written = @ \cup
                           {[file |-> CurFile, changed |-> data # ghost.opened]},
                                      !.opened = List(<<>>)]
       ELSE UNCHANGED <<disk, ghost>>
    /\ rstats' =
          IF rfile.fields_retried > 0
          THEN [files_processed |-> rstats.files_processed + 1,
                fields_retried |-> rstats.fields_retried + rfile.fields_retried,
                fields_fixed |-> rstats.fields_fixed + rfile.fields_fixed,
                fields_still_failed |-> rstats.fields_still_failed
                    + (rfile.fields_retried - rfile.fields_fixed)]
          ELSE rstats
    /\ fidx' = fidx + 1 /\ pc' = "file"
    /\ UNCHANGED <<chunker, mode, max_workers, data, iidx, snapshot, kidx, stats, results,
                   rfile, fixer, vagg, tr>>

\* lines 103, 198: the stats are returned and printed, and the script ends
RetrySummary ==
    /\ mode = "retry" /\ pc = "file" /\ fidx > Len(FileNames)
    /\ pc' = "idle"
    /\ UNCHANGED <<chunker, disk, mode, max_workers, fidx, data, iidx, snapshot, kidx,
                   stats, results, tr, ghost, others>>

(***************************************************************************)
(* fix_non_translatable.py: NonTranslatableFixer                           *)
(***************************************************************************)
NON_TRANSLATABLE_VALUES ==
    { <<"t", "r", "u", "e">>, <<"f", "a", "l", "s", "e">>,
      <<"n", "u", "l", "l">>, <<"y", "e", "s">>, <<"n", "o">>,
      <<"0">>, <<"1">>, <<"2">>, <<"3">>, <<"4">>, <<"5">>, <<"6">>, <<"7">>,
      <<"8">>, <<"9">> }

\* line 98: value.lower().strip() in self.NON_TRANSLATABLE_VALUES
NonTranslatable(s) == Strip(Lower(s)) \in NON_TRANSLATABLE_VALUES

\* lines 87-108: the loop over list(item.items()) from position k on, with
\* the item as changed so far and the number of fields fixed so far
RECURSIVE FixFields(_, _, _, _)
FixFields(snap, k, item, fixed) ==
    IF k > Len(snap) THEN [item |-> item, fixed |-> fixed]
    ELSE LET key == snap[k].key
             value == snap[k].val
             en_key == EnKey(key)
         IN  IF EndsWithSuffix(key) \/ ~value.str
             THEN FixFields(snap, k + 1, item, fixed)
             ELSE IF NonTranslatable(value.s)
                     /\ \/ InItem(item, en_key) /\ GetItem(item, en_key) # value
                        \/ ~InItem(item, en_key)
             THEN FixFields(snap, k + 1, SetItem(item, en_key, value), fixed + 1)
             ELSE FixFields(snap, k + 1, item, fixed)

\* lines 86-108: the loop over data from position i on
RECURSIVE FixItems(_, _, _)
FixItems(items, i, fixed) ==
    IF i > Len(items) THEN [items |-> items, fixed |-> fixed, raised |-> FALSE]
    ELSE IF ~items[i].isdict
    THEN [items |-> items, fixed |-> fixed, raised |-> TRUE]
    ELSE LET r == FixFields(items[i].fields, 1, items[i], fixed)
         IN  FixItems([items EXCEPT ![i] = r.item], i + 1, r.fixed)

\* lines 120-123, 37-49
StartFix == Start("fix")

\* line 42, and lines 51-56 with _fix_file: the mapping file is not in
\* json_files; json.load raises on text that is not JSON, a document that
\* is not a list is left alone, and items() raises on an item that is not a
\* mapping; fix_all_files prints the error
FixFile ==
    /\ mode = "fix" /\ pc = "file" /\ fidx <= Len(FileNames)
    /\ LET content == disk[CurFile]
           r == FixItems(content.items, 1, 0)
       IN  IF \/ CurFile = "filename_mapping.json"
              \/ content.kind # "list"
              \/ r.raised
              \/ r.fixed = 0
           THEN UNCHANGED <<disk, fixer, ghost>>
           ELSE /\ disk' = [disk EXCEPT ![CurFile] = List(r.items)]
                /\ fixer' = [total_fixed |-> fixer.total_fixed + r.fixed,
                             files_modified |-> fixer.files_modified + 1]
                /\ ghost' = [ghost EXCEPT !.written = @ \cup
                               {[file |-> CurFile,
                                 changed |-> List(r.items) # content]}]
    /\ fidx' = fidx + 1
    /\ UNCHANGED <<chunker, mode, max_workers, pc, data, iidx, snapshot, kidx, stats,
                   results, rfile, rstats, vagg, tr>>

\* lines 58-64, 125: the summary is printed and the script ends
FixSummary ==
    /\ mode = "fix" /\ pc = "file" /\ fidx > Len(FileNames)
    /\ pc' = "idle"
    /\ UNCHANGED <<chunker, disk, mode, max_workers, fidx, data, iidx, snapshot, kidx,
                   stats, results, tr, ghost, others>>

(***************************************************************************)
(* verify_translations.py: TranslationVerifier                             *)
(***************************************************************************)
\* Counted without the test of the key's suffix
CountedAnyKey(field) == ~NotText(field.val)

\* lines 161-165: an original field holding text
Counted(field) == ~EndsWithSuffix(field.key) /\ ~NotText(field.val)

\* the positions <<item, field>> of the counted fields of a document
CountedAt(items) ==
    {p \in UNION {{<<i, k>> : k \in DOMAIN items[i].fields} : i \in DOMAIN items} :
        Counted(items[p[1]].fields[p[2]])}

\* lines 154-156: the counters of _verify_file
NoCounts == [total_fields |-> 0, translated_fields |-> 0, failed_fields |-> 0]

\* lines 159-174: the loop over item.items() from position k on
RECURSIVE VerifyFields(_, _, _)
VerifyFields(item, k, counts) ==
    IF k > Len(item.fields) THEN counts
    ELSE LET key == item.fields[k].key
             value == item.fields[k].val
             en_key == EnKey(key)
         IN  IF ~Counted(item.fields[k])
             THEN VerifyFields(item, k + 1, counts)
             ELSE VerifyFields(item, k + 1,
                    [total_fields |-> counts.total_fields + 1,
                     translated_fields |-> counts.translated_fields
                        + (IF InItem(item, en_key) THEN 1 ELSE 0),
                     failed_fields |-> counts.failed_fields
                        + (IF InItem(item, en_key) /\ GetItem(item, en_key) = value
                           THEN 1 ELSE 0)])

\* line 158: the loop over data from position i on
RECURSIVE VerifyItems(_, _, _)
VerifyItems(items, i, counts) ==
    IF i > Len(items) THEN counts
    ELSE VerifyItems(items, i + 1, VerifyFields(items[i], 1, counts))

\* lines 154-182
FileStats(filename, items) ==
    LET counts == VerifyItems(items, 1, NoCounts)
    IN  [filename |-> filename,
         total_items |-> Len(items),
         total_fields |-> counts.total_fields,
         translated_fields |-> counts.translated_fields,
         failed_fields |-> counts.failed_fields]

\* lines 31-36: FileStats.translation_rate, as the exact fraction num/den
translation_rate(fs) ==
    IF fs.total_fields = 0 THEN [num |-> 0, den |-> 1]
    ELSE [num |-> (fs.translated_fields - fs.failed_fields) * 100,
          den |-> fs.total_fields]

\* lines 253-255, 88-102
StartVerify == Start("verify")

\* VerifyFile replacing a file that does not parse by an empty list
VerifyFileRepairing ==
    /\ mode = "verify" /\ pc = "file" /\ fidx <= Len(FileNames)
    /\ LET content == disk[CurFile]
       IN  IF \/ CurFile = "filename_mapping.json"
              \/ content.kind # "list"
              \/ \E i \in DOMAIN content.items : ~content.items[i].isdict
           THEN /\ UNCHANGED vagg
                /\ disk' = IF content.kind = "invalid"
                           THEN [disk EXCEPT ![CurFile] = List(<<>>)]
                           ELSE disk
           ELSE LET fs == FileStats(CurFile, content.items)
                IN  /\ vagg' =
                          [total_items |-> vagg.total_items + fs.total_items,
                           total_fields |-> vagg.total_fields + fs.total_fields,
                           translated_fields |->
                               vagg.translated_fields + fs.translated_fields,
                           failed_fields |-> vagg.failed_fields + fs.failed_fields,
                           file_stats |-> Append(vagg.file_stats, fs)]
                    /\ UNCHANGED disk
    /\ fidx' = fidx + 1
    /\ UNCHANGED <<chunker, mode, max_workers, pc, data, iidx, snapshot, kidx,
                   stats, results, rfile, rstats, fixer, tr, ghost>>

\* lines 104-126 with _verify_file: the mapping file is passed over;
\* json.load raises on text that is not JSON, a document that is not a list
\* raises ValueError and items() raises on an item that is not a mapping;
\* verify_all_files prints the error
VerifyFile ==
    /\ mode = "verify" /\ pc = "file" /\ fidx <= Len(FileNames)
    /\ LET content == disk[CurFile]
       IN  IF \/ CurFile = "filename_mapping.json"
              \/ content.kind # "list"
              \/ \E i \in DOMAIN content.items : ~content.items[i].isdict
           THEN UNCHANGED vagg
           ELSE LET fs == FileStats(CurFile, content.items)
                IN  vagg' =
                      [total_items |-> vagg.total_items + fs.total_items,
                       total_fields |-> vagg.total_fields + fs.total_fields,
                       translated_fields |->
                           vagg.translated_fields + fs.translated_fields,
                       failed_fields |-> vagg.failed_fields + fs.failed_fields,
                       file_stats |-> Append(vagg.file_stats, fs)]
    /\ fidx' = fidx + 1
    /\ UNCHANGED <<chunker, disk, mode, max_workers, pc, data, iidx, snapshot, kidx, stats,
                   results, rfile, rstats, fixer, tr, ghost>>

\* lines 54-59: AggregateStats.coverage_rate, as the exact fraction num/den
coverage_rate(agg) ==
    IF agg.total_fields = 0 THEN [num |-> 0, den |-> 1]
    ELSE [num |-> (agg.translated_fields - agg.failed_fields) * 100,
          den |-> agg.total_fields]

\* lines 61-66: AggregateStats.translation_rate, as the exact fraction
aggregate_translation_rate(agg) ==
    IF agg.total_fields = 0 THEN [num |-> 0, den |-> 1]
    ELSE [num |-> agg.translated_fields * 100, den |-> agg.total_fields]

\* lines 128-135, 185-210, 256-261: the AggregateStats are returned and
\* print_summary prints them; the division of line 200 raises
\* ZeroDivisionError when total_fields is 0, and the script ends without
\* a report; otherwise the report is exported and the script ends
VerifySummary ==
    /\ mode = "verify" /\ pc = "file" /\ fidx > Len(FileNames)
    /\ pc' = IF vagg.total_fields = 0 THEN "raised" ELSE "idle"
    /\ UNCHANGED <<chunker, disk, mode, max_workers, fidx, data, iidx, snapshot, kidx,
                   stats, results, tr, ghost, others>>

(***************************************************************************)
(* Properties                                                              *)
(***************************************************************************)
\* the stepwise chunker and the operator the translator uses agree
ChunkerAgrees ==
    chunker.pc = "done" =>
        chunker.chunks = chunk_text(chunker.text, chunker.max_size)

TwoCharDelimiters ==
    {SENTENCE_DELIMITERS[i] : i \in {j \in DOMAIN SENTENCE_DELIMITERS :
                                        Len(SENTENCE_DELIMITERS[j]) = 2}}

\* C1: the chunks chunk_text returns, concatenated in order, are the text
C1_ChunksReassemble ==
    chunker.pc = "done" => Concat(chunker.chunks) = chunker.text

\* a text with a chunk cut short of max_size after a delimiter that white
\* space follows
C1_Witness ==
    /\ chunker.pc = "done"
    /\ \E i \in 1..(Len(chunker.chunks) - 1) :
          /\ Len(chunker.chunks[i]) < chunker.max_size
          /\ Head(chunker.chunks[i + 1]) \in Whitespace

\* C2: no chunk is longer than max_size
C2_ChunksWithinMaxSize ==
    \A i \in DOMAIN chunker.chunks :
        Len(chunker.chunks[i]) <= chunker.max_size

\* a chunk of exactly max_size characters cut after a two-character
\* delimiter that ends the window, in a text that goes on with a delimiter
C2_Witness ==
    /\ chunker.pc = "done"
    /\ \E i \in 1..(Len(chunker.chunks) - 1) :
          LET c == chunker.chunks[i]
          IN  /\ Len(c) = chunker.max_size
              /\ Len(c) >= 2
              /\ SubSeq(c, Len(c) - 1, Len(c)) \in TwoCharDelimiters
              /\ Take(chunker.chunks[i + 1], 2) \in TwoCharDelimiters

\* unit i of the translate() in progress has ended
UnitFinished(i) == tr.pc = "ret" \/ i < tr.cidx
\* the value translate() uses for its unit i
UnitValue(i) ==
    IF Len(tr.chunks) = 1 THEN tr.result ELSE tr.translated_chunks[i]

\* C3: a unit for which the provider raised k < MAX_RETRIES times and then
\* returned took k+1 calls and has the returned value; and the attempts a
\* unit has used are its own calls only, whatever the chunks before it took
C3_RetryConvergence ==
    \A i \in DOMAIN ghost.units :
        LET u == ghost.units[i]
        IN  /\ u.returned # <<>> =>
                 /\ Len(u.returned) = 1
                 /\ u.fails < MAX_RETRIES
                 /\ u.calls = u.fails + 1
                 /\ UnitFinished(i)
                 /\ UnitValue(i) = u.returned[1]
            /\ (tr.pc = "attempt" /\ i = tr.cidx) =>
                 /\ tr.attempt = u.calls
                 /\ u.calls = u.fails
                 /\ u.calls < MAX_RETRIES
            /\ (tr.pc = "attempt" /\ i > tr.cidx) => u.calls = 0

\* the first chunk used up its attempts and the second one was translated
\* at its last attempt
C3_Witness ==
    /\ tr.pc = "ret"
    /\ Len(tr.chunks) = 2
    /\ ghost.units[1].fails = MAX_RETRIES
    /\ ghost.units[2].fails = MAX_RETRIES - 1
    /\ ghost.units[2].returned = <<EnText>>
    /\ tr.result = tr.chunks[1] \o <<" ">> \o EnText

\* C4: a unit for which the provider raised at every call took MAX_RETRIES
\* calls and has its input text; its caller goes on
C4_ExhaustedKeepsText ==
    \A i \in DOMAIN ghost.units :
        LET u == ghost.units[i]
        IN  (UnitFinished(i) /\ u.returned = <<>>) =>
                /\ u.calls = MAX_RETRIES
                /\ u.fails = MAX_RETRIES
                /\ UnitValue(i) = u.text
                /\ pc = "translating"
                /\ mode \in {"translate", "retry"}

\* a whole field given up after MAX_RETRIES raises
C4_Witness ==
    /\ tr.pc = "ret"
    /\ Len(tr.chunks) = 1
    /\ ghost.units[1].fails = MAX_RETRIES
    /\ ghost.units[1].returned = <<>>
    /\ tr.result = tr.text
    /\ tr.text = ArText

\* the translation of the field at p of a document
DerivedAt(items, p) == GetItem(items[p[1]], EnKey(items[p[1]].fields[p[2]].key))
HasDerivedAt(items, p) == InItem(items[p[1]], EnKey(items[p[1]].fields[p[2]].key))
ValueAt(items, p) == items[p[1]].fields[p[2]].val

\* the counted fields of the current file that had no translation when it
\* was loaded
Untranslated ==
    {p \in CountedAt(data.items) : ~HasDerivedAt(disk[CurFile].items, p)}

\* C5: when the provider returned its input at every call made for a file,
\* every field translated in the file has its own value as translation and
\* is counted as failed, none as translated
C5_FailureSignature ==
    (mode = "translate" /\ pc = "save" /\ ~ghost.raised /\ ~ghost.changed) =>
        /\ stats.translated_fields = 0
        /\ stats.failed_fields = Cardinality(Untranslated)
        /\ \A p \in Untranslated :
              /\ HasDerivedAt(data.items, p)
              /\ DerivedAt(data.items, p) = ValueAt(data.items, p)

\* every counted field of the record has a translation
RecordTranslated(item) ==
    /\ item.isdict
    /\ \A k \in DOMAIN item.fields :
          Counted(item.fields[k]) => InItem(item, EnKey(item.fields[k].key))

\* C6: in translate mode the step on a field that has a translation only
\* adds one to skipped_fields, and a record whose counted fields all have
\* translations is never changed nor the provider called for it
C6_TranslatedIsSkipped ==
    /\ [][(/\ mode = "translate" /\ pc = "field" /\ kidx <= Len(snapshot)
           /\ Counted(snapshot[kidx])
           /\ InItem(data.items[iidx], EnKey(snapshot[kidx].key)))
          => /\ data' = data /\ disk' = disk /\ tr' = tr /\ ghost' = ghost
             /\ pc' = "field" /\ kidx' = kidx + 1
             /\ stats' = [stats EXCEPT !.skipped_fields = @ + 1]]_vars
    /\ [](/\ mode = "translate" /\ pc \in {"field", "translating"}
          /\ RecordTranslated(disk[CurFile].items[iidx])
          => /\ data.items[iidx] = disk[CurFile].items[iidx]
             /\ pc = "field")

\* a file of two records with all their translations, processed to the end
C6_Witness ==
    /\ mode = "translate" /\ pc = "save"
    /\ Len(data.items) = 2
    /\ stats.skipped_fields = 2
    /\ \A i \in DOMAIN data.items : RecordTranslated(disk[CurFile].items[i])
    /\ data = disk[CurFile]
    /\ ~ghost.called

\* the fields of a document holding a non-translatable literal
LiteralAt(items) ==
    {p \in CountedAt(items) : NonTranslatable(ValueAt(items, p).s)}

\* C7: the provider is never called for a field holding a non-translatable
\* literal, and once its record is processed the field's translation is the
\* literal itself
C7_LiteralNeverSent ==
    /\ pc = "translating" => ~NonTranslatable(snapshot[kidx].val.s)
    /\ (mode = "translate" /\ pc = "save") =>
          \A p \in LiteralAt(data.items) :
              /\ HasDerivedAt(data.items, p)
              /\ DerivedAt(data.items, p) = ValueAt(data.items, p)

\* the fields of a document whose translation equals their value, the
\* non-translatable literals left out
FailedAt(items) ==
    {p \in CountedAt(items) \ LiteralAt(items) :
        HasDerivedAt(items, p) /\ DerivedAt(items, p) = ValueAt(items, p)}

\* C8: a non-translatable literal with the literal as its translation is
\* not counted as failed by the verifier or by translate mode, and is not
\* retried by retry mode
C8_LiteralIsNotAFailure ==
    /\ \A i \in DOMAIN vagg.file_stats :
          vagg.file_stats[i].failed_fields =
              Cardinality(FailedAt(disk[vagg.file_stats[i].filename].items))
    /\ (mode = "retry" /\ pc = "translating") =>
          ~NonTranslatable(snapshot[kidx].val.s)
    /\ (mode = "translate" /\ pc = "save") =>
          stats.failed_fields <= Cardinality(FailedAt(data.items))

\* C9: a file is written only with a document that differs from the one on
\* storage (stated for the files that hold a list)
C9_WrittenOnlyIfChanged ==
    \A w \in ghost.written : disk[w.file].kind = "list" => w.changed

\* the translate script has processed all of json_files
TranslateDone == mode = "translate" /\ pc = "file" /\ fidx > Len(FileNames)

\* C10: after translate mode every file has a result; a file that does not
\* parse or does not hold a list has a failed result and was not written
C10_BadFileSkipped ==
    TranslateDone =>
        /\ Len(results) = Len(FileNames)
        /\ \A i \in DOMAIN FileNames :
              /\ results[i].filename = FileNames[i]
              /\ disk[FileNames[i]].kind # "list" =>
                    /\ ~results[i].success
                    /\ \A w \in ghost.written : w.file # FileNames[i]

\* C11: filename_mapping.json is passed over by every script: it is never
\* loaded or processed, never written, and never among the reported files
C11_MappingFileSkipped ==
    /\ pc \in {"item", "field", "translating", "save", "write"} =>
          CurFile # "filename_mapping.json"
    /\ \A i \in DOMAIN results : results[i].filename # "filename_mapping.json"
    /\ \A w \in ghost.written : w.file # "filename_mapping.json"
    /\ \A i \in DOMAIN vagg.file_stats :
          vagg.file_stats[i].filename # "filename_mapping.json"

\* the provider raised at every call made for the translate() that returns
AllCallsRaised ==
    /\ tr.pc = "ret"
    /\ ghost.units # <<>>
    /\ \A i \in DOMAIN ghost.units : ghost.units[i].returned = <<>>

\* C12: retry mode calls translate() only for a field whose translation
\* exists and equals its value, and when the provider raised at every call
\* made for the field, the record and fields_fixed are left as they were
C12_RetryOverwritesOnSuccessOnly ==
    /\ []((mode = "retry" /\ pc = "translating") =>
            /\ InItem(data.items[iidx], EnKey(snapshot[kidx].key))
            /\ GetItem(data.items[iidx], EnKey(snapshot[kidx].key))
                  = snapshot[kidx].val)
    /\ [][(mode = "retry" /\ pc = "translating" /\ AllCallsRaised)
          => /\ data' = data
             /\ rfile'.fields_fixed = rfile.fields_fixed
             /\ rfile'.modified = rfile.modified]_vars

\* the parts in their order, each but the first with one space before it
SpacedParts(parts) ==
    Concat([i \in DOMAIN parts |->
               IF i = 1 THEN parts[i] ELSE <<" ">> \o parts[i]])

\* C13: for a text of n > 1 chunks translate() returns n parts in chunk
\* order with one space between them, each part what the provider returned
\* for the chunk, or the chunk itself when the provider raised at every call
C13_ChunksJoinedInOrder ==
    (pc = "translating" /\ tr.pc = "ret" /\ Len(tr.chunks) > 1) =>
        LET n == Len(tr.chunks)
            part(i) == IF ghost.units[i].returned # <<>>
                       THEN ghost.units[i].returned[1]
                       ELSE tr.chunks[i]
        IN  /\ Len(ghost.units) = n
            /\ \A i \in 1..n : ghost.units[i].text = tr.chunks[i]
            /\ Concat(tr.chunks) = tr.text
            /\ tr.result = SpacedParts([i \in 1..n |-> part(i)])

\* the first chunk translated and the second one kept after MAX_RETRIES
\* raises
C13_Witness ==
    /\ pc = "translating" /\ tr.pc = "ret"
    /\ Len(tr.chunks) = 2
    /\ ghost.units[1].returned = <<EnText>>
    /\ ghost.units[2].returned = <<>>
    /\ ghost.units[2].fails = MAX_RETRIES
    /\ tr.result = EnText \o <<" ">> \o tr.chunks[2]

\* the positions <<item, field>> of a document's fields whose name does not
\* end in the suffix and whose value is a string with a character that is
\* not white space
SourceTextAt(items) ==
    {p \in UNION {{<<i, k>> : k \in DOMAIN items[i].fields} : i \in DOMAIN items} :
        LET f == items[p[1]].fields[p[2]]
        IN  /\ f.key.en = 0
            /\ f.val.str
            /\ \E j \in DOMAIN f.val.s : f.val.s[j] \notin {" ", "\n"}}

\* the fields of the record that are the derived field of the field at p
DerivedFieldsAt(items, p) ==
    {k \in DOMAIN items[p[1]].fields :
        items[p[1]].fields[k].key =
            [name |-> items[p[1]].fields[p[2]].key.name, en |-> 1]}

\* the sum of count(fs) over the first n of the verifier's file_stats
RECURSIVE SumStats(_, _)
SumStats(count(_), n) ==
    IF n = 0 THEN 0 ELSE count(vagg.file_stats[n]) + SumStats(count, n - 1)

\* the files before position n of json_files that verify without error, in
\* order
RECURSIVE VerifiedFiles(_)
VerifiedFiles(n) ==
    IF n = 0 THEN <<>>
    ELSE LET f == FileNames[n]
             ok == /\ f # "filename_mapping.json"
                   /\ disk[f].kind = "list"
                   /\ \A i \in DOMAIN disk[f].items : disk[f].items[i].isdict
         IN  IF ok THEN Append(VerifiedFiles(n - 1), f) ELSE VerifiedFiles(n - 1)

\* C14: the verifier's counts of a file are the numbers of its source text
\* fields, of those with a derived field, and of those whose derived field
\* equals the value; failed <= translated <= total, the success rate is
\* within 0..100, and the aggregate counts are the sums over the files
\* verified
C14_VerifierCounts ==
    mode = "verify" =>
        /\ \A n \in DOMAIN vagg.file_stats :
              LET fs == vagg.file_stats[n]
                  items == disk[fs.filename].items
                  total == SourceTextAt(items)
                  translated == {p \in total : DerivedFieldsAt(items, p) # {}}
                  failed == {p \in translated :
                                \E k \in DerivedFieldsAt(items, p) :
                                    items[p[1]].fields[k].val
                                        = items[p[1]].fields[p[2]].val}
                  rate == translation_rate(fs)
              IN  /\ fs.total_items = Len(items)
                  /\ fs.total_fields = Cardinality(total)
                  /\ fs.translated_fields = Cardinality(translated)
                  /\ fs.failed_fields = Cardinality(failed)
                  /\ 0 <= fs.failed_fields
                  /\ fs.failed_fields <= fs.translated_fields
                  /\ fs.translated_fields <= fs.total_fields
                  /\ rate.den > 0
                  /\ 0 <= rate.num /\ rate.num <= 100 * rate.den
        /\ [i \in DOMAIN vagg.file_stats |-> vagg.file_stats[i].filename]
              = VerifiedFiles(fidx - 1)
        /\ LET n == Len(vagg.file_stats)
               items_of(fs) == fs.total_items
               fields_of(fs) == fs.total_fields
               translated_of(fs) == fs.translated_fields
               failed_of(fs) == fs.failed_fields
           IN  /\ vagg.total_items = SumStats(items_of, n)
               /\ vagg.total_fields = SumStats(fields_of, n)
               /\ vagg.translated_fields = SumStats(translated_of, n)
               /\ vagg.failed_fields = SumStats(failed_of, n)

\* two files verified: one with two untranslated fields next to a number
\* and a blank string, one with a translated and a failed field
C14_Witness ==
    /\ mode = "verify" /\ pc = "file" /\ fidx > Len(FileNames)
    /\ Len(vagg.file_stats) = 2
    /\ vagg.file_stats[1].total_fields = 2
    /\ vagg.file_stats[1].translated_fields = 0
    /\ Len(disk["a.json"].items[1].fields) = 4
    /\ vagg.file_stats[2].translated_fields = 2
    /\ vagg.file_stats[2].failed_fields = 1
    /\ vagg.total_fields = 4
    /\ vagg.failed_fields = 1

\* C15: no step of the verifier changes a file, and it writes none
C15_VerifyChangesNoFile ==
    /\ [][mode = "verify" => disk' = disk]_vars
    /\ [](mode = "verify" => ghost.written = {})

\* a verification pass ended over a file that does not parse, the mapping
\* file and a file of records
C15_Witness ==
    /\ mode = "verify" /\ pc = "file" /\ fidx > Len(FileNames)
    /\ disk["a.json"].kind = "invalid"
    /\ disk["z.json"].kind = "list"
    /\ Len(disk["z.json"].items) = 2
    /\ Len(vagg.file_stats) = 1
    /\ vagg.file_stats[1].filename = "z.json"

\* the item `new` has the fields of `old` in their places, those whose name
\* does not end in the suffix with their values, and after them only fields
\* named by a source field's name and the suffix
RecordGrows(old, new) ==
    /\ new.isdict = old.isdict
    /\ Len(new.fields) >= Len(old.fields)
    /\ \A k \in DOMAIN old.fields :
          /\ new.fields[k].key = old.fields[k].key
          /\ old.fields[k].key.en = 0 => new.fields[k].val = old.fields[k].val
    /\ \A k \in (Len(old.fields) + 1)..Len(new.fields) :
          \E j \in DOMAIN old.fields :
              /\ old.fields[j].key.en = 0
              /\ new.fields[k].key = [name |-> old.fields[j].key.name, en |-> 1]

ContentGrows(old, new) ==
    /\ new.kind = old.kind
    /\ Len(new.items) = Len(old.items)
    /\ \A i \in DOMAIN old.items : RecordGrows(old.items[i], new.items[i])

\* the content of file f, and while f is being written the content it had
\* when it was opened
Whole(f) == IF pc = "write" /\ f = CurFile THEN ghost.opened ELSE disk[f]

\* C16: whatever script runs, a step leaves every file with all its records
\* and fields, the source fields with their values, and adds only derived
\* fields of source fields (a file that is being written taken as it was
\* when opened); so does the document a script holds in memory
C16_RecordsOnlyGrow ==
    /\ [][\A f \in FileSet : ContentGrows(Whole(f), Whole(f)')]_vars
    /\ []((mode \in {"translate", "retry"}
             /\ pc \in {"item", "field", "translating", "save"})
          => ContentGrows(disk[CurFile], data))

\* translate mode wrote a record of four fields with two derived fields more
C16_Witness ==
    /\ mode = "translate"
    /\ [file |-> "a.json", changed |-> TRUE] \in ghost.written
    /\ Len(disk["a.json"].items) = 1
    /\ Len(disk["a.json"].items[1].fields) = 6

\* the derived fields of `old` that differ from their source field, with
\* what may become of them in `new`: allowed(source, derived value in new)
DifferingDerived(old, new, allowed(_, _)) ==
    \A i \in DOMAIN old.items : \A k \in DOMAIN old.items[i].fields :
        LET source == old.items[i].fields[k]
            derived == [name |-> source.key.name, en |-> 1]
        IN  (/\ source.key.en = 0
             /\ InItem(old.items[i], derived)
             /\ GetItem(old.items[i], derived) # source.val
             /\ GetItem(new.items[i], derived) # GetItem(old.items[i], derived))
            => allowed(source, GetItem(new.items[i], derived))

\* C17 as stated: no step of any script changes a derived value that
\* differs from its source value
C17_DerivedChangedOnlyIfFailed ==
    [][\A f \in FileSet :
          LET never(source, value) == FALSE
          IN  DifferingDerived(Whole(f), Whole(f)', never)]_vars

\* C17 as the code has it: translate and retry mode change no derived value
\* that differs from its source value; the fixer changes one only when the
\* source value is a non-translatable literal, and makes it that literal
C17_DerivedChangedOnlyIfFailedOrLiteral ==
    [][\A f \in FileSet :
          LET never(source, value) == FALSE
              literal(source, value) ==
                  /\ source.val.str
                  /\ NonTranslatable(source.val.s)
                  /\ value = source.val
          IN  /\ mode # "fix" => DifferingDerived(Whole(f), Whole(f)', never)
              /\ mode = "fix" => DifferingDerived(Whole(f), Whole(f)', literal)]_vars

\* retry mode has replaced a derived value that was equal to its source
C17_Witness ==
    /\ mode = "retry" /\ pc = "field"
    /\ rfile.fields_fixed = 1
    /\ LET old == disk[CurFile].items[iidx]
           new == data.items[iidx]
       IN  /\ GetItem(old, EnKey(Title)) = GetItem(old, Title)
           /\ GetItem(new, EnKey(Title)) = Str(EnText)
           /\ GetItem(new, Title) = GetItem(old, Title)

\* the directory's names from the least to the greatest
NameOrder == <<"a.json", "filename_mapping.json", "z.json">>
NameRank(f) == CHOOSE i \in DOMAIN NameOrder : NameOrder[i] = f

\* where translate mode is: file, item, field and chunk, each 0 until the
\* script has entered it
Position ==
    << fidx,
       IF pc \in {"item", "field", "translating", "save", "write"} THEN iidx ELSE 0,
       IF pc \in {"field", "translating"} THEN kidx ELSE 0,
       IF pc = "translating" THEN tr.cidx ELSE 0 >>

\* p is before q or equal to it, from the first component on
RECURSIVE LexLE(_, _)
LexLE(p, q) ==
    \/ p = <<>>
    \/ Head(p) < Head(q)
    \/ Head(p) = Head(q) /\ LexLE(Tail(p), Tail(q))

\* the units of the translate() in progress whose number of calls the step
\* changes
UnitsCalled ==
    IF DOMAIN ghost'.units # DOMAIN ghost.units THEN {}
    ELSE {i \in DOMAIN ghost.units : ghost'.units[i].calls # ghost.units[i].calls}

C19_FirstDelimiterWins ==
    chunker.pc = "broken" =>
        LET w == chunker.chunk
            m == chunker.max_size
            least == (m * MIN_CHUNK_RATIO_NUM) \div MIN_CHUNK_RATIO_DEN
            d(j) == SENTENCE_DELIMITERS[j]
            at(j) == {q \in 1..Len(w) :
                        /\ q + Len(d(j)) - 1 <= Len(w)
                        /\ \A c \in 1..Len(d(j)) : w[q + c - 1] = d(j)[c]
                        /\ q - 1 > least}
            far == {j \in DOMAIN SENTENCE_DELIMITERS : at(j) # {}}
        IN  /\ Len(w) = m
            /\ far = {} => chunker.break_point = m
            /\ far # {} =>
                 LET first == CHOOSE j \in far : \A k \in far : j <= k
                     last == CHOOSE q \in at(first) : \A r \in at(first) : r <= q
                 IN  chunker.break_point = (last - 1) + Len(d(first))

\* a sentence end at position 4 of a window of 7 characters wins over the
\* newline at position 6
C19_Witness ==
    /\ chunker.pc = "broken"
    /\ chunker.chunk = <<"x", "x", "x", "x", ".", " ", "\n">>
    /\ chunker.max_size = 7
    /\ chunker.break_point = 6

\* C20: chunk_text ends; an iteration that leaves a remainder takes at
\* least one character and at least MIN_CHUNK_RATIO * max_size characters
\* off the remaining text, and no chunk is empty unless the text is
C20_ChunkingTerminates ==
    /\ <>(chunker.pc = "done")
    /\ [][(chunker.pc = "loop" /\ chunker'.pc = "loop")
          => LET removed == Len(chunker.remaining) - Len(chunker'.remaining)
             IN  /\ removed >= 1
                 /\ removed * MIN_CHUNK_RATIO_DEN
                       >= MIN_CHUNK_RATIO_NUM * chunker.max_size
                 /\ Len(chunker'.chunks) = Len(chunker.chunks) + 1
                 /\ Len(chunker'.chunks[Len(chunker'.chunks)]) = removed
                 /\ chunker'.remaining # <<>>]_vars
    /\ [](\A i \in DOMAIN chunker.chunks :
             chunker.chunks[i] = <<>> =>
                 chunker.text = <<>> /\ Len(chunker.chunks) = 1)

\* a text whose first cut is made after a newline at the first position a
\* delimiter may have, short of max_size, and that ends with its next chunk
C20_Witness ==
    /\ chunker.pc = "done"
    /\ Len(chunker.chunks) = 2
    /\ Len(chunker.chunks[1]) < chunker.max_size
    /\ Len(chunker.chunks[1]) =
          (chunker.max_size * MIN_CHUNK_RATIO_NUM) \div MIN_CHUNK_RATIO_DEN + 2
    /\ chunker.chunks[1][Len(chunker.chunks[1])] = "\n"
    /\ chunker.chunks[2] # <<>>

\* C21: a file translate mode has processed without error has a derived
\* field for every source text field, whatever the provider did, and the
\* verifier's count of its translated fields is its count of all of them
C21_TranslatedFileIsComplete ==
    mode = "translate" =>
        \A r \in DOMAIN results :
            LET items == disk[results[r].filename].items
                fs == FileStats(results[r].filename, items)
            IN  (results[r].success /\ disk[results[r].filename].kind = "list") =>
                    /\ \A p \in SourceTextAt(items) : DerivedFieldsAt(items, p) # {}
                    /\ fs.translated_fields = fs.total_fields

\* a file done with one field translated and one for which the provider
\* failed, next to a number and a blank string
C21_Witness ==
    /\ mode = "translate" /\ pc = "file"
    /\ Len(results) >= 1
    /\ results[1].success
    /\ results[1].stats.translated_fields = 1
    /\ results[1].stats.failed_fields = 1
    /\ Len(disk["a.json"].items[1].fields) = 6
    /\ FileStats("a.json", disk["a.json"].items).total_fields = 2

\* the fields the document in memory has and the one on storage has not,
\* that differ from the field they are derived from, or equal it
CreatedAt(differing) ==
    {p \in UNION {{<<i, k>> : k \in DOMAIN data.items[i].fields} :
                    i \in DOMAIN data.items} :
        /\ p[2] > Len(disk[CurFile].items[p[1]].fields)
        /\ LET made == data.items[p[1]].fields[p[2]]
               source == [name |-> made.key.name, en |-> made.key.en - 1]
           IN  (made.val # GetItem(data.items[p[1]], source)) = differing}

\* C22: when translate mode has processed the items of a file, skipped,
\* translated and failed fields add up to the source text fields of the
\* file, translated_fields is the number of derived fields made that differ
\* from their source and failed_fields the number of those that equal it
C22_CountersPartitionFields ==
    (mode = "translate" /\ pc = "save") =>
        /\ stats.translated_fields + stats.failed_fields + stats.skipped_fields
              = Cardinality(SourceTextAt(data.items))
        /\ stats.translated_fields + stats.failed_fields
              = FieldCount(data.items) - FieldCount(disk[CurFile].items)
        /\ stats.translated_fields = Cardinality(CreatedAt(TRUE))
        /\ stats.failed_fields = Cardinality(CreatedAt(FALSE))
        /\ stats.skipped_fields =
              Cardinality({p \in SourceTextAt(disk[CurFile].items) :
                              DerivedFieldsAt(disk[CurFile].items, p) # {}})

\* a record with one field skipped and one translated
C22_Witness ==
    /\ mode = "translate" /\ pc = "save"
    /\ Len(data.items) = 1
    /\ stats.skipped_fields = 1
    /\ stats.translated_fields = 1
    /\ stats.failed_fields = 0
    /\ Len(data.items[1].fields) = 6

\* every key of the document has the suffix once at most
SuffixOnceAtMost(content) ==
    \A i \in DOMAIN content.items : \A k \in DOMAIN content.items[i].fields :
        content.items[i].fields[k].key.en <= 1

\* C23: a field whose name ends in the suffix is never given to translate(),
\* the step of translate or retry mode on it only passes on to the next
\* field, and no script makes a key with the suffix twice
C23_DerivedIsNeverSource ==
    /\ [](pc = "translating" => snapshot[kidx].key.en = 0)
    /\ [](\A f \in FileSet : SuffixOnceAtMost(disk[f]))
    /\ [](SuffixOnceAtMost(data))
    /\ [][(/\ mode \in {"translate", "retry"} /\ pc = "field"
           /\ kidx <= Len(snapshot) /\ snapshot[kidx].key.en > 0)
          => /\ kidx' = kidx + 1 /\ pc' = "field"
             /\ UNCHANGED <<data, disk, stats, rfile, tr, ghost>>]_vars

\* translate mode has gone past a derived field that holds text, in a
\* record that still has its two fields
C23_Witness ==
    /\ mode = "translate" /\ pc = "field"
    /\ Len(snapshot) = 2 /\ kidx = 3
    /\ snapshot[2].key.en = 1
    /\ ~NotText(snapshot[2].val)
    /\ data.items[iidx].fields = snapshot

\* C24: in translate and retry mode a step that changes a file on storage
\* changes the file the script is at, when all its records are processed,
\* and leaves it with the whole document; so a script ended at any point
\* leaves every file as it was or with the complete result
C24_FilesAreWhole ==
    [][(mode = "translate" \/ mode = "retry") =>
          \A f \in FileSet :
              disk'[f] # disk[f] =>
                  (f = CurFile /\ iidx > Len(data.items) /\ disk'[f] = data)]_vars

\* C25: a provider call that is not the script's first is made after a
\* sleep of BASE_DELAY, CHUNK_DELAY or RETRY_DELAY since the call before it
C25_CallsArePaced ==
    [][(UnitsCalled # {} /\ ghost.begun)
       => ghost.slept \in {BASE_DELAY, CHUNK_DELAY, RETRY_DELAY}]_vars

\* the fields of a document holding a non-translatable literal whose
\* translation is the literal, as the fixer leaves them
FixedLiteralAt(items) ==
    {p \in LiteralAt(items) :
        HasDerivedAt(items, p) /\ DerivedAt(items, p) = ValueAt(items, p)}

\* C26: translate and retry mode never call the provider for a field that
\* holds a non-translatable literal with the literal as its translation, and
\* none of their steps changes that translation
C26_FixedLiteralIsStable ==
    /\ []((mode \in {"translate", "retry"} /\ pc = "translating") =>
            ~(/\ NonTranslatable(snapshot[kidx].val.s)
              /\ LooksFailed(data.items[iidx], snapshot[kidx].key,
                             snapshot[kidx].val)))
    /\ [][(mode = "translate" \/ mode = "retry") =>
            \A f \in FileSet : \A p \in FixedLiteralAt(Whole(f).items) :
                /\ p \in FixedLiteralAt(Whole(f)'.items)
                /\ DerivedAt(Whole(f)'.items, p) = DerivedAt(Whole(f).items, p)]_vars

\* C27: when translate mode has processed all the files, the translated
\* and failed fields of its summary add up to the number of derived fields
\* the script has written to storage
C27_SummaryMatchesStorage ==
    TranslateDone => total_translated + total_failed = ghost.created

\* C28: a verifier that has counted no field ends without raising, and with
\* rates of 0 for the aggregate
C28_EmptyVerifyCompletes ==
    (mode = "verify" /\ vagg.total_fields = 0) =>
        /\ pc # "raised"
        /\ coverage_rate(vagg).num = 0
        /\ aggregate_translation_rate(vagg).num = 0

Init ==
    /\ chunker = NoChunker
    /\ disk \in InitialDisks
    /\ mode = "none" /\ max_workers = MAX_WORKERS /\ pc = "idle" /\ Fresh

Next ==
    \/ StartTranslate \/ TrLoad \/ TrItem \/ TrField \/ TrStore \/ TrOpen
    \/ TrSave
    \/ TrSummary
    \/ StartRetry \/ RetryLoad \/ RetryItem \/ RetryField \/ RetryStore
    \/ RetryOpen \/ RetrySave \/ RetrySummary
    \/ StartFix \/ FixFile \/ FixSummary
    \/ StartVerify \/ VerifyFile \/ VerifySummary
    \/ TranslateEnter \/ ProviderReturn \/ ProviderRaise

Spec == Init /\ [][Next]_vars

(***************************************************************************)
(* The chunker on its own: chunk_text run one loop iteration at a time on  *)
(* every text over ChunkAlphabet of at most MaxTextLen characters and      *)
(* every max_size in 1..MaxSizeArg.                                        *)
(***************************************************************************)
ChunkTexts == UNION {[1..n -> ChunkAlphabet] : n \in 0..MaxTextLen}

ChunkInit ==
    /\ \E text \in ChunkTexts, max_size \in 1..MaxSizeArg :
          chunker = [pc |-> "call", text |-> text, max_size |-> max_size,
                     remaining |-> <<>>, chunks |-> <<>>]
    /\ PipeIdle

\* lines 66-70: the short-text return, or the loop's set-up
ChunkEnter ==
    /\ chunker.pc = "call"
    /\ \/ /\ Len(chunker.text) <= chunker.max_size
          /\ chunker' = [chunker EXCEPT !.pc = "done",
                                        !.chunks = <<chunker.text>>]
       \/ /\ Len(chunker.text) > chunker.max_size
          /\ chunker' = [chunker EXCEPT !.pc = "loop",
                                        !.remaining = chunker.text]
    /\ UNCHANGED pipeVars

\* lines 72-75: the last chunk
ChunkLast ==
    /\ chunker.pc = "loop"
    /\ chunker.remaining # <<>>
    /\ Len(chunker.remaining) <= chunker.max_size
    /\ chunker' = [chunker EXCEPT !.pc = "done",
                                  !.chunks = Append(@, chunker.remaining)]
    /\ UNCHANGED pipeVars

\* lines 77-81: one cut
ChunkCut ==
    /\ chunker.pc = "loop"
    /\ chunker.remaining # <<>>
    /\ Len(chunker.remaining) > chunker.max_size
    /\ LET break_point == BreakPoint(chunker.remaining, chunker.max_size)
       IN  chunker' = [chunker EXCEPT
                          !.chunks = Append(@, CutChunk(chunker.remaining, break_point)),
                          !.remaining = CutRest(chunker.remaining, break_point)]
    /\ UNCHANGED pipeVars

ChunkNext == ChunkEnter \/ ChunkLast \/ ChunkCut

SpecChunk == ChunkInit /\ [][ChunkNext]_vars

\* the chunker's loop keeps running until it returns
SpecChunkFair == SpecChunk /\ WF_vars(ChunkNext)

(***************************************************************************)
(* _find_break_point on its own, on every window of max_size characters    *)
(* over WindowAlphabet for every max_size in 1..MaxWindow.                 *)
(***************************************************************************)
BreakInit ==
    /\ \E max_size \in 1..MaxWindow :
          \E chunk \in [1..max_size -> WindowAlphabet] :
              chunker = [pc |-> "window", chunk |-> chunk,
                         max_size |-> max_size, break_point |-> 0]
    /\ PipeIdle

\* lines 86-95
FindBreak ==
    /\ chunker.pc = "window"
    /\ chunker' = [chunker EXCEPT
                      !.pc = "broken",
                      !.break_point =
                          _find_break_point(chunker.chunk, chunker.max_size)]
    /\ UNCHANGED pipeVars

SpecBreak == BreakInit /\ [][FindBreak]_vars

====
